---------------------------- MODULE Spec2Model ----------------------------
(***************************************************************************)
(* A model of two parts of the repository:                                 *)
(*                                                                         *)
(*   src/src/node.rs                                                       *)
(*       Node, the (allocator, handle) view of an S-expression: nullp,     *)
(*       as_bool, arg_count_is and the Iterator implementation.            *)
(*                                                                         *)
(*   src/tools/src/bin/generate-fuzz-corpus.rs                             *)
(*       the operator catalog OPERATORS, type_convertible, and the         *)
(*       recursive generators generate_program / generate_args / generate  *)
(*       driven by main.                                                   *)
(*                                                                         *)
(* The variables of all parts live in one module; each specification       *)
(* (SpecNode, SpecIter, SpecConv, Spec, SpecDefect) moves only             *)
(* the variables of its part and leaves the others at their initial value. *)
(***************************************************************************)
EXTENDS Integers, Sequences, FiniteSets

VARIABLES
    \* ---- node.rs ----
    arena,      \* the allocator's storage: handle i names arena[i]
    call,       \* the Node method call in progress, its arguments and its result
    iterStart,  \* the node into_iter was called on (0: no iterator yet)
    cursor,     \* the iterator's own field `node`
    yielded,    \* the handles next() has returned so far, in order
    ended,      \* TRUE once a next() has returned None
    lastRet,    \* whether next() was called, and what the last call returned
    \* ---- generate-fuzz-corpus.rs: type_convertible ----
    cvFrom, cvTo, cvRes,
    \* ---- generate-fuzz-corpus.rs: the generator ----
    catalog,    \* the indices of OPERATORS that are present
    mode,       \* where main is: "loop1", "program", "loop2", "args", "panicked"
    op,         \* main's `op`: the index of the entry of the current sample
    buffer,     \* main's `buffer`: the bytes emitted for the current sample
    stack,      \* the pending work of the recursive calls, innermost first
    draws,      \* random draws made for the current sample
    intAtom     \* the argument of the last write_atom for an integer literal

nodeVars == <<arena, call, iterStart, cursor, yielded, ended, lastRet>>
convVars == <<cvFrom, cvTo, cvRes>>
genVars  == <<catalog, mode, op, buffer, stack, draws, intAtom>>
vars     == <<nodeVars, convVars, genVars>>

(***************************************************************************)
(* Bounds of the exploration.                                              *)
(***************************************************************************)
MaxNodes == 4       \* nodes allocated in one arena
MaxCount == 3       \* largest `count` passed to arg_count_is

(***************************************************************************)
(* The allocator (trait Allocator, not in node.rs): an append-only store   *)
(* of atoms and pairs; a handle is an index into it.                       *)
(***************************************************************************)
AtomValues == {<<>>, <<0>>, <<1>>}

Atom(b)    == [tag |-> "Atom", bytes |-> b, left |-> 0, right |-> 0]
Pair(l, r) == [tag |-> "Pair", bytes |-> <<>>, left |-> l, right |-> r]

Handles(a) == 1..Len(a)

new_atom(a, v) == Append(a, Atom(v))

new_pair(a, l, r) == Append(a, Pair(l, r))

sexp(a, p) == a[p]

make_clone(a, p) == p

(***************************************************************************)
(* Node methods, src/src/node.rs.  A Node is (allocator, node); the        *)
(* operators take the allocator's storage `a` and the handle `p`.  An      *)
(* Option is a sequence: <<>> is None, <<x>> is Some(x).                   *)
(***************************************************************************)
atom(a, p) == IF sexp(a, p).tag = "Atom" THEN <<sexp(a, p).bytes>> ELSE <<>>

pair(a, p) == IF sexp(a, p).tag = "Pair"
              THEN <<sexp(a, p).left, sexp(a, p).right>>
              ELSE <<>>

nullp(a, p) == IF sexp(a, p).tag = "Atom"
               THEN Len(sexp(a, p).bytes) = 0
               ELSE FALSE

as_bool_ByValue(a, p) ==
    IF atom(a, p) # <<>>
    THEN \E i \in 1..Len(atom(a, p)[1]) : atom(a, p)[1][i] # 0
    ELSE TRUE

as_bool(a, p) == IF atom(a, p) # <<>>
                 THEN ~(Len(atom(a, p)[1]) = 0)
                 ELSE TRUE

RECURSIVE arg_count_loop(_, _, _)
arg_count_loop(a, ptr, count) ==
    IF count = 0
    THEN nullp(a, ptr)
    ELSE IF sexp(a, ptr).tag = "Pair"
         THEN arg_count_loop(a, sexp(a, ptr).right, count - 1)
         ELSE FALSE

RECURSIVE arg_count_loop_NoTerminatorTest(_, _, _)
arg_count_loop_NoTerminatorTest(a, ptr, count) ==
    IF count = 0
    THEN TRUE
    ELSE IF sexp(a, ptr).tag = "Pair"
         THEN arg_count_loop_NoTerminatorTest(a, sexp(a, ptr).right, count - 1)
         ELSE FALSE

arg_count_is_NoTerminatorTest(a, p, count) ==
    arg_count_loop_NoTerminatorTest(a, make_clone(a, p), count)

arg_count_is(a, p, count) == arg_count_loop(a, make_clone(a, p), count)

into_iter(a, p) == make_clone(a, p)

\* Iterator::next: the value returned and the iterator's new `node`.
\* An Option is a sequence: <<>> is None, <<x>> is Some(x).
next_YieldsRest(a, cur) ==
    IF pair(a, cur) # <<>>
    THEN [ret |-> <<pair(a, cur)[2]>>, node |-> pair(a, cur)[2]]
    ELSE [ret |-> <<>>, node |-> cur]

next(a, cur) ==
    IF pair(a, cur) # <<>>
    THEN [ret |-> <<pair(a, cur)[1]>>, node |-> pair(a, cur)[2]]
    ELSE [ret |-> <<>>, node |-> cur]

(***************************************************************************)
(* Initial values of the three variable groups.                            *)
(***************************************************************************)
NoNextYet == [called |-> FALSE, ret |-> <<>>]

NoCallYet == [fn |-> "none", node |-> 0, count |-> 0, ret |-> FALSE]

NodeInit == /\ arena = <<>>
            /\ call = NoCallYet
            /\ iterStart = 0
            /\ cursor = 0
            /\ yielded = <<>>
            /\ ended = FALSE
            /\ lastRet = NoNextYet

ConvIdle == /\ cvFrom = "Program"
            /\ cvTo = "Program"
            /\ cvRes = "none"

(***************************************************************************)
(* Actions on a Node.                                                      *)
(***************************************************************************)
NewAtom ==
    /\ call.fn = "none"
    /\ Len(arena) < MaxNodes
    /\ \E v \in AtomValues : arena' = new_atom(arena, v)
    /\ UNCHANGED <<call, iterStart, cursor, yielded, ended, lastRet>>
    /\ UNCHANGED <<convVars, genVars>>

Cons ==
    /\ call.fn = "none"
    /\ Len(arena) < MaxNodes
    /\ \E l \in Handles(arena), r \in Handles(arena) :
           arena' = new_pair(arena, l, r)
    /\ UNCHANGED <<call, iterStart, cursor, yielded, ended, lastRet>>
    /\ UNCHANGED <<convVars, genVars>>

CallNullp ==
    /\ call.fn = "none"
    /\ \E p \in Handles(arena) :
           call' = [fn |-> "nullp", node |-> p, count |-> 0,
                    ret |-> nullp(arena, p)]
    /\ UNCHANGED <<arena, iterStart, cursor, yielded, ended, lastRet>>
    /\ UNCHANGED <<convVars, genVars>>

CallAsBool ==
    /\ call.fn = "none"
    /\ \E p \in Handles(arena) :
           call' = [fn |-> "as_bool", node |-> p, count |-> 0,
                    ret |-> as_bool(arena, p)]
    /\ UNCHANGED <<arena, iterStart, cursor, yielded, ended, lastRet>>
    /\ UNCHANGED <<convVars, genVars>>

CallArgCountIs ==
    /\ call.fn = "none"
    /\ \E p \in Handles(arena), n \in 0..MaxCount :
           call' = [fn |-> "arg_count_is", node |-> p, count |-> n,
                    ret |-> arg_count_is(arena, p, n)]
    /\ UNCHANGED <<arena, iterStart, cursor, yielded, ended, lastRet>>
    /\ UNCHANGED <<convVars, genVars>>

\* the caller has taken the result
Return ==
    /\ call.fn # "none"
    /\ call' = NoCallYet
    /\ UNCHANGED <<arena, iterStart, cursor, yielded, ended, lastRet>>
    /\ UNCHANGED <<convVars, genVars>>

IntoIter ==
    /\ \E p \in Handles(arena) :
           /\ iterStart' = p
           /\ cursor' = into_iter(arena, p)
    /\ yielded' = <<>>
    /\ ended' = FALSE
    /\ lastRet' = NoNextYet
    /\ UNCHANGED <<arena, call>>
    /\ UNCHANGED <<convVars, genVars>>

IterNext ==
    /\ iterStart # 0
    /\ cursor' = next(arena, cursor).node
    /\ lastRet' = [called |-> TRUE, ret |-> next(arena, cursor).ret]
    /\ yielded' = yielded \o next(arena, cursor).ret
    /\ ended' = (ended \/ next(arena, cursor).ret = <<>>)
    /\ UNCHANGED <<arena, call, iterStart>>
    /\ UNCHANGED <<convVars, genVars>>

(***************************************************************************)
(* src/tools/src/bin/generate-fuzz-corpus.rs: types and the catalog.       *)
(***************************************************************************)
Types == {"Program", "Tree", "List", "PointPair", "Bool", "Int64", "Int32",
          "Zero", "Cost", "Bytes32", "Bytes48", "Bytes96", "AnyAtom"}

ATOMS == <<"Bool", "Int64", "Int32", "Zero", "Cost",
           "Bytes32", "Bytes48", "Bytes96">>

AtomKinds == {ATOMS[i] : i \in 1..Len(ATOMS)}

OPERATORS == <<
    [opcode |-> 2, operands |-> <<"Program", "Tree">>, result |-> "AnyAtom"],
    [opcode |-> 3, operands |-> <<"Bool", "Program", "Program">>, result |-> "Program"],
    [opcode |-> 4, operands |-> <<"AnyAtom", "List">>, result |-> "List"],
    [opcode |-> 4, operands |-> <<"Bytes48", "Bytes96">>, result |-> "PointPair"],
    [opcode |-> 5, operands |-> <<"List">>, result |-> "AnyAtom"],
    [opcode |-> 6, operands |-> <<"List">>, result |-> "List"],
    [opcode |-> 7, operands |-> <<"List">>, result |-> "Bool"],
    [opcode |-> 8, operands |-> <<"AnyAtom">>, result |-> "AnyAtom"],
    [opcode |-> 9, operands |-> <<"AnyAtom", "AnyAtom">>, result |-> "Bool"],
    [opcode |-> 10, operands |-> <<"AnyAtom", "AnyAtom">>, result |-> "Bool"],
    [opcode |-> 11, operands |-> <<"AnyAtom", "AnyAtom", "AnyAtom">>, result |-> "Bytes32"],
    [opcode |-> 12, operands |-> <<"AnyAtom", "Int32">>, result |-> "AnyAtom"],
    [opcode |-> 12, operands |-> <<"AnyAtom", "Int32", "Int32">>, result |-> "AnyAtom"],
    [opcode |-> 13, operands |-> <<"AnyAtom">>, result |-> "Int32"],
    [opcode |-> 14, operands |-> <<"AnyAtom", "AnyAtom">>, result |-> "AnyAtom"],
    [opcode |-> 14, operands |-> <<"AnyAtom", "AnyAtom", "AnyAtom">>, result |-> "AnyAtom"],
    [opcode |-> 16, operands |-> <<>>, result |-> "Int64"],
    [opcode |-> 16, operands |-> <<"Int64">>, result |-> "Int64"],
    [opcode |-> 16, operands |-> <<"Int64", "Int64">>, result |-> "Int64"],
    [opcode |-> 16, operands |-> <<"Int64", "Int64", "Int64">>, result |-> "Int64"],
    [opcode |-> 17, operands |-> <<>>, result |-> "Int64"],
    [opcode |-> 17, operands |-> <<"Int64">>, result |-> "Int64"],
    [opcode |-> 17, operands |-> <<"Int64", "Int64">>, result |-> "Int64"],
    [opcode |-> 17, operands |-> <<"Int64", "Int64", "Int64">>, result |-> "Int64"],
    [opcode |-> 18, operands |-> <<"Int64", "Int64">>, result |-> "Int64"],
    [opcode |-> 19, operands |-> <<"Int64", "Int64">>, result |-> "Int64"],
    [opcode |-> 20, operands |-> <<"Int64", "Int64">>, result |-> "List"],
    [opcode |-> 21, operands |-> <<"Int64", "Int64">>, result |-> "Bool"],
    [opcode |-> 22, operands |-> <<"Int64", "Int32">>, result |-> "Int64"],
    [opcode |-> 23, operands |-> <<"Int64", "Int32">>, result |-> "Int64"],
    [opcode |-> 24, operands |-> <<>>, result |-> "AnyAtom"],
    [opcode |-> 24, operands |-> <<"AnyAtom">>, result |-> "AnyAtom"],
    [opcode |-> 24, operands |-> <<"AnyAtom", "AnyAtom">>, result |-> "AnyAtom"],
    [opcode |-> 24, operands |-> <<"AnyAtom", "AnyAtom", "AnyAtom">>, result |-> "AnyAtom"],
    [opcode |-> 25, operands |-> <<>>, result |-> "AnyAtom"],
    [opcode |-> 25, operands |-> <<"AnyAtom">>, result |-> "AnyAtom"],
    [opcode |-> 25, operands |-> <<"AnyAtom", "AnyAtom">>, result |-> "AnyAtom"],
    [opcode |-> 25, operands |-> <<"AnyAtom", "AnyAtom", "AnyAtom">>, result |-> "AnyAtom"],
    [opcode |-> 26, operands |-> <<>>, result |-> "AnyAtom"],
    [opcode |-> 26, operands |-> <<"AnyAtom">>, result |-> "AnyAtom"],
    [opcode |-> 26, operands |-> <<"AnyAtom", "AnyAtom">>, result |-> "AnyAtom"],
    [opcode |-> 26, operands |-> <<"AnyAtom", "AnyAtom", "AnyAtom">>, result |-> "AnyAtom"],
    [opcode |-> 27, operands |-> <<"AnyAtom">>, result |-> "AnyAtom"],
    [opcode |-> 29, operands |-> <<>>, result |-> "Bytes48"],
    [opcode |-> 29, operands |-> <<"Bytes48">>, result |-> "Bytes48"],
    [opcode |-> 29, operands |-> <<"Bytes48", "Bytes48">>, result |-> "Bytes48"],
    [opcode |-> 29, operands |-> <<"Bytes48", "Bytes48", "Bytes48">>, result |-> "Bytes48"],
    [opcode |-> 30, operands |-> <<"AnyAtom">>, result |-> "Bytes48"],
    [opcode |-> 32, operands |-> <<"AnyAtom">>, result |-> "Bool"],
    [opcode |-> 33, operands |-> <<"AnyAtom", "AnyAtom">>, result |-> "Bool"],
    [opcode |-> 34, operands |-> <<"AnyAtom", "AnyAtom">>, result |-> "Bool"],
    [opcode |-> 36, operands |-> <<"Cost", "Zero", "Program", "Tree">>, result |-> "Bool"],
    [opcode |-> 48, operands |-> <<"Bytes32", "Bytes32", "Int64">>, result |-> "Bytes32"],
    [opcode |-> 49, operands |-> <<"Bytes48", "Bytes48">>, result |-> "Bytes48"],
    [opcode |-> 50, operands |-> <<"Bytes48", "Int64">>, result |-> "Bytes48"],
    [opcode |-> 51, operands |-> <<"Bytes48">>, result |-> "Bytes48"],
    [opcode |-> 52, operands |-> <<"Bytes96", "Bytes96">>, result |-> "Bytes96"],
    [opcode |-> 53, operands |-> <<"Bytes96", "Bytes96">>, result |-> "Bytes96"],
    [opcode |-> 54, operands |-> <<"Bytes96", "Int64">>, result |-> "Bytes96"],
    [opcode |-> 54, operands |-> <<"Bytes96", "Bytes32">>, result |-> "Bytes96"],
    [opcode |-> 54, operands |-> <<"Bytes96", "Bytes48">>, result |-> "Bytes96"],
    [opcode |-> 54, operands |-> <<"Bytes96", "Bytes96">>, result |-> "Bytes96"],
    [opcode |-> 55, operands |-> <<"Bytes96">>, result |-> "Bytes96"],
    [opcode |-> 56, operands |-> <<"AnyAtom", "AnyAtom">>, result |-> "Bytes48"],
    [opcode |-> 57, operands |-> <<"AnyAtom", "AnyAtom">>, result |-> "Bytes96"],
    [opcode |-> 57, operands |-> <<"AnyAtom">>, result |-> "Bytes96"],
    [opcode |-> 58, operands |-> <<"PointPair">>, result |-> "Bool"],
    [opcode |-> 58, operands |-> <<"PointPair", "PointPair">>, result |-> "Bool"],
    [opcode |-> 58, operands |-> <<"PointPair", "PointPair", "PointPair">>, result |-> "Bool"],
    [opcode |-> 58, operands |-> <<"PointPair", "PointPair", "PointPair", "PointPair">>, result |-> "Bool"],
    [opcode |-> 58, operands |-> <<"PointPair", "PointPair", "PointPair", "PointPair", "PointPair">>, result |-> "Bool"],
    [opcode |-> 59, operands |-> <<"Bytes96">>, result |-> "Bool"],
    [opcode |-> 59, operands |-> <<"Bytes96", "PointPair">>, result |-> "Bool"],
    [opcode |-> 59, operands |-> <<"Bytes96", "PointPair", "PointPair">>, result |-> "Bool"],
    [opcode |-> 59, operands |-> <<"Bytes96", "PointPair", "PointPair", "PointPair">>, result |-> "Bool"],
    [opcode |-> 59, operands |-> <<"Bytes96", "PointPair", "PointPair", "PointPair", "PointPair">>, result |-> "Bool"]
>>

type_convertible_Symmetric(from, to) ==
    \/ from = to
    \/ to = "AnyAtom" /\ from \in AtomKinds
    \/ from = "AnyAtom" /\ to \in AtomKinds
    \/ to = "Tree" /\ from = "List"
    \/ to = "Zero" /\ from = "Int32"
    \/ to = "Cost" /\ from = "Int64"

type_convertible(from, to) ==
    \/ from = to
    \/ to = "AnyAtom" /\ from \in AtomKinds
    \/ to = "Tree" /\ from = "List"
    \/ to = "Zero" /\ from = "Int32"
    \/ to = "Cost" /\ from = "Int64"

(***************************************************************************)
(* Rust's u32 and u64 are kept as big-endian sequences of 16-bit limbs     *)
(* (two and four of them): the values do not fit TLC's 32-bit integers.  *)
(***************************************************************************)
INTERESTING_U32 == <<
    <<0, 0>>, <<0, 1>>, <<0, 5>>, <<0, 255>>, <<0, 65535>>, <<0, 256>>,
    <<65535, 65535>>, <<32767, 65535>>, <<128, 0>>
>>

INTERESTING_U64 == <<
    <<0, 0, 0, 0>>, <<0, 0, 0, 1>>, <<0, 0, 0, 5>>, <<0, 0, 0, 255>>,
    <<65535, 65535, 65535, 65535>>, <<0, 0, 0, 256>>,
    <<32768, 0, 0, 0>>, <<32767, 65535, 65535, 65535>>
>>

\* 8000000000_u64 = 0x0000_0001_DCD6_5000
COST_VALUE == <<0, 1, 56534, 20480>>

\* u32::to_be_bytes / u64::to_be_bytes: two bytes per limb, high byte first.
to_be_bytes(limbs) ==
    [i \in 1..(2 * Len(limbs)) |->
        IF i % 2 = 1 THEN limbs[(i + 1) \div 2] \div 256
                     ELSE limbs[i \div 2] % 256]

\* &ZEROS[..n]
ZEROS(n) == [i \in 1..n |-> 0]

(***************************************************************************)
(* klvmr::serde::write_atom (not among the source files): one byte for a   *)
(* one-byte atom up to 0x7f, otherwise a length prefix and the raw bytes.  *)
(***************************************************************************)
size_prefix(size) ==
    IF size < 64 THEN <<128 + size>>
    ELSE IF size < 8192 THEN <<192 + (size \div 256), size % 256>>
    ELSE <<224 + (size \div 65536), (size \div 256) % 256, size % 256>>

write_atom(buf, bytes) ==
    IF Len(bytes) = 1 /\ bytes[1] <= 127
    THEN buf \o bytes
    ELSE buf \o size_prefix(Len(bytes)) \o bytes

(***************************************************************************)
(* The random source.  gen_bool has both outcomes; gen_range(0..n) is      *)
(* explored at RngLevels evenly spaced points of its range (all of the     *)
(* range when n <= RngLevels).  Indices are 1-based.                       *)
(***************************************************************************)
RngLevels == 2      \* points explored per gen_range draw
MaxDraws  == 10     \* random draws explored per sample

gen_range(n) == {((r * n) \div RngLevels) + 1 : r \in 0..(RngLevels - 1)}

rand_atom_types == {ATOMS[k] : k \in gen_range(Len(ATOMS))}

generate_u32 == {INTERESTING_U32[k] : k \in gen_range(Len(INTERESTING_U32))}

generate_u64 == {INTERESTING_U64[k] : k \in gen_range(Len(INTERESTING_U64))}

(***************************************************************************)
(* The catalog in use and the entries that can produce a type.             *)
(***************************************************************************)
OpIndices == [i \in 1..Len(OPERATORS) |-> i]

AllOps == 1..Len(OPERATORS)

present(cat) == SelectSeq(OpIndices, LAMBDA o : o \in cat)

potential_ops_Reversed(cat, arg) ==
    SelectSeq(present(cat),
              LAMBDA o : type_convertible(arg, OPERATORS[o].result))

potential_ops(cat, arg) ==
    SelectSeq(present(cat),
              LAMBDA o : type_convertible(OPERATORS[o].result, arg))

(***************************************************************************)
(* Pending work.  The recursion of generate_program / generate_args /      *)
(* generate is kept as a stack of tasks, innermost first:                  *)
(*   program(op, i)  generate_program(op) is about to handle operand i     *)
(*   args(op, i)     generate_args(op) is about to handle operand i        *)
(*   generate(t)     a call generate(t) that has not started               *)
(*   list(n)         the List arm has n elements left to emit              *)
(***************************************************************************)
ProgramTask(o, i) == [k |-> "program", op |-> o, i |-> i, t |-> "-"]
ArgsTask(o, i)    == [k |-> "args", op |-> o, i |-> i, t |-> "-"]
GenerateTask(t)   == [k |-> "generate", op |-> 0, i |-> 0, t |-> t]
ListTask(n)       == [k |-> "list", op |-> 0, i |-> n, t |-> "-"]

NoIntAtom == [t |-> "none", bytes |-> <<>>]

GenIdle == /\ catalog = AllOps
           /\ mode = "loop1"
           /\ op = 0
           /\ buffer = <<>>
           /\ stack = <<>>
           /\ draws = 0
           /\ intAtom = NoIntAtom

Top == Head(stack)

Running == mode \in {"program", "args"} /\ stack # <<>>

\* generate_program(op, ..) up to its loop: the pair marker and the opcode.
program_head_NoPairMarker(o) == <<OPERATORS[o].opcode>>

program_head(o) == <<255, OPERATORS[o].opcode>>

(***************************************************************************)
(* main.  mode is "loop1" at the head of the first loop (programs),        *)
(* "program" while generate_program runs, "loop2" at the head of the       *)
(* second loop (argument lists), "args" while generate_args runs, and      *)
(* "panicked" once the process has aborted.  i % OPERATORS.len() takes     *)
(* every index; the loop counters themselves are not kept.                 *)
(***************************************************************************)
StartProgram ==
    /\ mode = "loop1"
    /\ \E o \in catalog :
           /\ buffer' = program_head(o)
           /\ stack' = <<ProgramTask(o, 1)>>
           /\ op' = o
    /\ mode' = "program"
    /\ UNCHANGED <<catalog, draws, intAtom>>
    /\ UNCHANGED <<nodeVars, convVars>>

StartArgs ==
    /\ mode = "loop2"
    /\ \E o \in catalog :
           /\ buffer' = <<>>
           /\ stack' = <<ArgsTask(o, 1)>>
           /\ op' = o
    /\ mode' = "args"
    /\ UNCHANGED <<catalog, draws, intAtom>>
    /\ UNCHANGED <<nodeVars, convVars>>

\* the buffer is written to its file; the next iteration, of this loop or
\* of the one after it, starts with buffer.truncate(0)
WriteFile ==
    /\ mode \in {"program", "args"}
    /\ stack = <<>>
    /\ mode' \in IF mode = "program" THEN {"loop1", "loop2"} ELSE {"loop2"}
    /\ buffer' = <<>>
    /\ op' = 0
    /\ draws' = 0
    /\ intAtom' = NoIntAtom
    /\ UNCHANGED <<catalog, stack>>
    /\ UNCHANGED <<nodeVars, convVars>>

(***************************************************************************)
(* generate_program's loop body.                                           *)
(***************************************************************************)
\* gen_bool(0.3) is true: a nested call.  With no candidate the message is
\* printed and sample() indexes an empty slice: gen_range(0..0) panics.
OperandNested ==
    /\ Running
    /\ Top.k = "program"
    /\ Top.i <= Len(OPERATORS[Top.op].operands)
    /\ draws + 2 <= MaxDraws
    /\ LET arg == OPERATORS[Top.op].operands[Top.i]
           pot == potential_ops(catalog, arg)
       IN  IF pot = <<>>
           THEN /\ mode' = "panicked"
                /\ buffer' = Append(buffer, 255)
                /\ draws' = draws + 1
                /\ UNCHANGED stack
           ELSE /\ \E k \in gen_range(Len(pot)) :
                       /\ buffer' = Append(buffer, 255) \o program_head(pot[k])
                       /\ stack' = <<ProgramTask(pot[k], 1),
                                     ProgramTask(Top.op, Top.i + 1)>>
                                   \o Tail(stack)
                /\ draws' = draws + 2
                /\ UNCHANGED mode
    /\ UNCHANGED <<catalog, op, intAtom>>
    /\ UNCHANGED <<nodeVars, convVars>>

\* gen_bool(0.3) is false: a quoted value.
OperandQuoted ==
    /\ Running
    /\ Top.k = "program"
    /\ Top.i <= Len(OPERATORS[Top.op].operands)
    /\ draws + 1 <= MaxDraws
    /\ buffer' = buffer \o <<255, 255, 1>>
    /\ stack' = <<GenerateTask(OPERATORS[Top.op].operands[Top.i]),
                  ProgramTask(Top.op, Top.i + 1)>> \o Tail(stack)
    /\ draws' = draws + 1
    /\ UNCHANGED <<catalog, op, mode, intAtom>>
    /\ UNCHANGED <<nodeVars, convVars>>

\* after the loop
ProgramEnd ==
    /\ Running
    /\ Top.k = "program"
    /\ Top.i > Len(OPERATORS[Top.op].operands)
    /\ buffer' = Append(buffer, 128)
    /\ stack' = Tail(stack)
    /\ UNCHANGED <<catalog, op, mode, draws, intAtom>>
    /\ UNCHANGED <<nodeVars, convVars>>

(***************************************************************************)
(* generate_args' loop body.                                               *)
(***************************************************************************)
ArgsQuoted ==
    /\ Running
    /\ Top.k = "args"
    /\ Top.i <= Len(OPERATORS[Top.op].operands)
    /\ buffer' = buffer \o <<255, 255, 1>>
    /\ stack' = <<GenerateTask(OPERATORS[Top.op].operands[Top.i]),
                  ArgsTask(Top.op, Top.i + 1)>> \o Tail(stack)
    /\ UNCHANGED <<catalog, op, mode, draws, intAtom>>
    /\ UNCHANGED <<nodeVars, convVars>>

ArgsEnd ==
    /\ Running
    /\ Top.k = "args"
    /\ Top.i > Len(OPERATORS[Top.op].operands)
    /\ buffer' = Append(buffer, 128)
    /\ stack' = Tail(stack)
    /\ UNCHANGED <<catalog, op, mode, draws, intAtom>>
    /\ UNCHANGED <<nodeVars, convVars>>

(***************************************************************************)
(* generate: one action per arm of the match.                              *)
(***************************************************************************)
Generating(t) == Running /\ Top.k = "generate" /\ Top.t = t

\* each side: gen_bool(0.1), then rand_atom_type unless the tree grows
tree_sides == [grow : BOOLEAN, kind : rand_atom_types]

side_type(s) == IF s.grow THEN "Tree" ELSE s.kind

side_draws(s) == IF s.grow THEN 1 ELSE 2

GenTree ==
    /\ Generating("Tree")
    /\ \E l \in tree_sides, r \in tree_sides :
           /\ draws + side_draws(l) + side_draws(r) <= MaxDraws
           /\ draws' = draws + side_draws(l) + side_draws(r)
           /\ stack' = <<GenerateTask(side_type(l)), GenerateTask(side_type(r))>>
                       \o Tail(stack)
    /\ buffer' = Append(buffer, 255)
    /\ UNCHANGED <<catalog, op, mode, intAtom>>
    /\ UNCHANGED <<nodeVars, convVars>>

\* let len = rng.gen_range(0..10)
GenList ==
    /\ Generating("List")
    /\ draws + 1 <= MaxDraws
    /\ \E len \in gen_range(10) : stack' = <<ListTask(len - 1)>> \o Tail(stack)
    /\ draws' = draws + 1
    /\ UNCHANGED <<catalog, op, mode, buffer, intAtom>>
    /\ UNCHANGED <<nodeVars, convVars>>

ListElement ==
    /\ Running
    /\ Top.k = "list"
    /\ Top.i > 0
    /\ draws + 1 <= MaxDraws
    /\ buffer' = Append(buffer, 255)
    /\ \E t \in rand_atom_types :
           stack' = <<GenerateTask(t), ListTask(Top.i - 1)>> \o Tail(stack)
    /\ draws' = draws + 1
    /\ UNCHANGED <<catalog, op, mode, intAtom>>
    /\ UNCHANGED <<nodeVars, convVars>>

ListEnd ==
    /\ Running
    /\ Top.k = "list"
    /\ Top.i = 0
    /\ buffer' = Append(buffer, 128)
    /\ stack' = Tail(stack)
    /\ UNCHANGED <<catalog, op, mode, draws, intAtom>>
    /\ UNCHANGED <<nodeVars, convVars>>

GenPointPair ==
    /\ Generating("PointPair")
    /\ buffer' = Append(buffer, 255)
    /\ stack' = <<GenerateTask("Bytes48"), GenerateTask("Bytes96")>>
                \o Tail(stack)
    /\ UNCHANGED <<catalog, op, mode, draws, intAtom>>
    /\ UNCHANGED <<nodeVars, convVars>>

GenProgram ==
    /\ Generating("Program")
    /\ draws + 1 <= MaxDraws
    /\ \E k \in gen_range(Len(present(catalog))) :
           /\ buffer' = buffer \o program_head(present(catalog)[k])
           /\ stack' = <<ProgramTask(present(catalog)[k], 1)>> \o Tail(stack)
    /\ draws' = draws + 1
    /\ UNCHANGED <<catalog, op, mode, intAtom>>
    /\ UNCHANGED <<nodeVars, convVars>>

GenBool ==
    /\ Generating("Bool")
    /\ draws + 1 <= MaxDraws
    /\ \E b \in BOOLEAN : buffer' = Append(buffer, IF b THEN 128 ELSE 1)
    /\ stack' = Tail(stack)
    /\ draws' = draws + 1
    /\ UNCHANGED <<catalog, op, mode, intAtom>>
    /\ UNCHANGED <<nodeVars, convVars>>

GenInt64 ==
    /\ Generating("Int64")
    /\ draws + 1 <= MaxDraws
    /\ \E v \in generate_u64 :
           /\ buffer' = write_atom(buffer, to_be_bytes(v))
           /\ intAtom' = [t |-> "Int64", bytes |-> to_be_bytes(v)]
    /\ stack' = Tail(stack)
    /\ draws' = draws + 1
    /\ UNCHANGED <<catalog, op, mode>>
    /\ UNCHANGED <<nodeVars, convVars>>

GenInt32 ==
    /\ Generating("Int32")
    /\ draws + 1 <= MaxDraws
    /\ \E v \in generate_u32 :
           /\ buffer' = write_atom(buffer, to_be_bytes(v))
           /\ intAtom' = [t |-> "Int32", bytes |-> to_be_bytes(v)]
    /\ stack' = Tail(stack)
    /\ draws' = draws + 1
    /\ UNCHANGED <<catalog, op, mode>>
    /\ UNCHANGED <<nodeVars, convVars>>

GenZero ==
    /\ Generating("Zero")
    /\ buffer' = Append(buffer, 128)
    /\ stack' = Tail(stack)
    /\ UNCHANGED <<catalog, op, mode, draws, intAtom>>
    /\ UNCHANGED <<nodeVars, convVars>>

GenCost ==
    /\ Generating("Cost")
    /\ buffer' = write_atom(buffer, to_be_bytes(COST_VALUE))
    /\ intAtom' = [t |-> "Cost", bytes |-> to_be_bytes(COST_VALUE)]
    /\ stack' = Tail(stack)
    /\ UNCHANGED <<catalog, op, mode, draws>>
    /\ UNCHANGED <<nodeVars, convVars>>

GenBytes32 ==
    /\ Generating("Bytes32")
    /\ buffer' = write_atom(buffer, ZEROS(32))
    /\ stack' = Tail(stack)
    /\ UNCHANGED <<catalog, op, mode, draws, intAtom>>
    /\ UNCHANGED <<nodeVars, convVars>>

GenBytes48 ==
    /\ Generating("Bytes48")
    /\ buffer' = write_atom(buffer, ZEROS(48))
    /\ stack' = Tail(stack)
    /\ UNCHANGED <<catalog, op, mode, draws, intAtom>>
    /\ UNCHANGED <<nodeVars, convVars>>

GenBytes96 ==
    /\ Generating("Bytes96")
    /\ buffer' = write_atom(buffer, ZEROS(96))
    /\ stack' = Tail(stack)
    /\ UNCHANGED <<catalog, op, mode, draws, intAtom>>
    /\ UNCHANGED <<nodeVars, convVars>>

GenAnyAtom ==
    /\ Generating("AnyAtom")
    /\ draws + 1 <= MaxDraws
    /\ \E t \in rand_atom_types : stack' = <<GenerateTask(t)>> \o Tail(stack)
    /\ draws' = draws + 1
    /\ UNCHANGED <<catalog, op, mode, buffer, intAtom>>
    /\ UNCHANGED <<nodeVars, convVars>>

(***************************************************************************)
(* type_convertible applied to one pair of types.                          *)
(***************************************************************************)
PickTypes ==
    /\ \E f \in Types, t \in Types : cvFrom' = f /\ cvTo' = t
    /\ cvRes' = "none"
    /\ UNCHANGED <<nodeVars, genVars>>

Convert ==
    /\ cvRes = "none"
    /\ cvRes' = IF type_convertible(cvFrom, cvTo) THEN "true" ELSE "false"
    /\ UNCHANGED <<cvFrom, cvTo>>
    /\ UNCHANGED <<nodeVars, genVars>>

(***************************************************************************)
(* The codec's reading direction (section 4.3 of the specification; the    *)
(* deserializer is not among the source files).  decode(buf, pos) reads    *)
(* one value starting at pos: [ok, node, end], end the position after it.  *)
(* A node is <<"a", bytes>> or <<"p", left, right>>.  Length prefixes of   *)
(* more than three bytes are not modelled and read as malformed.           *)
(***************************************************************************)
A(bytes) == <<"a", bytes>>

P(l, r) == <<"p", l, r>>

Malformed == [ok |-> FALSE, node |-> A(<<>>), end |-> 0]

decode_atom(buf, pos, header, size) ==
    IF pos + header + size - 1 > Len(buf)
    THEN Malformed
    ELSE [ok |-> TRUE,
          node |-> A(SubSeq(buf, pos + header, pos + header + size - 1)),
          end |-> pos + header + size]

RECURSIVE decode(_, _)
decode(buf, pos) ==
    IF pos > Len(buf) THEN Malformed
    ELSE LET b == buf[pos] IN
         IF b = 255
         THEN LET l == decode(buf, pos + 1) IN
              IF ~l.ok THEN Malformed
              ELSE LET r == decode(buf, l.end) IN
                   IF ~r.ok THEN Malformed
                   ELSE [ok |-> TRUE, node |-> P(l.node, r.node), end |-> r.end]
         ELSE IF b <= 127
         THEN [ok |-> TRUE, node |-> A(<<b>>), end |-> pos + 1]
         ELSE IF b < 192
         THEN decode_atom(buf, pos, 1, b - 128)
         ELSE IF b < 224
         THEN IF pos + 1 > Len(buf) THEN Malformed
              ELSE decode_atom(buf, pos, 2, (b - 192) * 256 + buf[pos + 1])
         ELSE IF b < 240
         THEN IF pos + 2 > Len(buf) THEN Malformed
              ELSE decode_atom(buf, pos, 3,
                       (b - 224) * 65536 + buf[pos + 1] * 256 + buf[pos + 2])
         ELSE Malformed

\* buf is exactly one encoded value: nothing missing, nothing left over.
ExactlyOneValue(buf) ==
    /\ decode(buf, 1).ok
    /\ decode(buf, 1).end = Len(buf) + 1

(***************************************************************************)
(* Type consistency of a decoded tree (section 4.4 and 4.5).               *)
(***************************************************************************)
Nil == A(<<>>)

IsPairNode(x) == x[1] = "p"

\* a freshly generated literal of a concrete atom kind
IsAtomLiteral(t, x) ==
    CASE t = "Bool" -> x \in {Nil, A(<<1>>)}
      [] t = "Int64" -> \E k \in 1..Len(INTERESTING_U64) :
                            x = A(to_be_bytes(INTERESTING_U64[k]))
      [] t = "Int32" -> \E k \in 1..Len(INTERESTING_U32) :
                            x = A(to_be_bytes(INTERESTING_U32[k]))
      [] t = "Zero" -> x = Nil
      [] t = "Cost" -> x = A(to_be_bytes(COST_VALUE))
      [] t = "Bytes32" -> x = A(ZEROS(32))
      [] t = "Bytes48" -> x = A(ZEROS(48))
      [] t = "Bytes96" -> x = A(ZEROS(96))
      [] OTHER -> FALSE

IsSomeAtomLiteral(x) == \E t \in AtomKinds : IsAtomLiteral(t, x)

RECURSIVE IsTreeLiteral(_)
IsTreeLiteral(x) ==
    /\ IsPairNode(x)
    /\ IsTreeLiteral(x[2]) \/ IsSomeAtomLiteral(x[2])
    /\ IsTreeLiteral(x[3]) \/ IsSomeAtomLiteral(x[3])

\* a right-nested chain of at most n atom literals ended by the empty atom
RECURSIVE IsListLiteral(_, _)
IsListLiteral(x, n) ==
    \/ x = Nil
    \/ /\ n > 0
       /\ IsPairNode(x)
       /\ IsSomeAtomLiteral(x[2])
       /\ IsListLiteral(x[3], n - 1)

RECURSIVE IsCall(_, _)
RECURSIVE HasOperands(_, _, _)
RECURSIVE IsOperand(_, _)
RECURSIVE IsLiteral(_, _)

\* x is the call (opcode operand_1 ... operand_k) of catalog entry o
IsCall(o, x) ==
    /\ IsPairNode(x)
    /\ x[2] = A(<<OPERATORS[o].opcode>>)
    /\ HasOperands(OPERATORS[o].operands, 1, x[3])

\* args holds operands i.. of the declared types, and no more
HasOperands(types, i, args) ==
    IF i > Len(types)
    THEN args = Nil
    ELSE /\ IsPairNode(args)
         /\ IsOperand(types[i], args[2])
         /\ HasOperands(types, i + 1, args[3])

\* a nested call with a convertible result, or a quoted literal
IsOperand(t, x) ==
    \/ \E o \in AllOps : /\ type_convertible(OPERATORS[o].result, t)
                         /\ IsCall(o, x)
    \/ /\ IsPairNode(x)
       /\ x[2] = A(<<1>>)
       /\ IsLiteral(t, x[3])

IsLiteral(t, x) ==
    CASE t = "Tree" -> IsTreeLiteral(x)
      [] t = "List" -> IsListLiteral(x, 9)
      [] t = "PointPair" -> x = P(A(ZEROS(48)), A(ZEROS(96)))
      [] t = "Program" -> \E o \in AllOps : IsCall(o, x)
      [] t = "AnyAtom" -> IsSomeAtomLiteral(x)
      [] OTHER -> IsAtomLiteral(t, x)

\* the current sample is finished: its buffer is what main writes to the file
Complete == mode \in {"program", "args"} /\ stack = <<>>

(***************************************************************************)
(* C1.  arg_count_is(n) on node N is true exactly when following the       *)
(* right child n times from N passes only through pairs and ends on the    *)
(* zero-length atom; it is false when an atom is met in fewer than n       *)
(* steps and false when the node after n steps is a pair or a non-empty    *)
(* atom.                                                                   *)
(***************************************************************************)
\* the handles met going right n times from N, when all but the last are pairs
RightPaths(a, N, n) ==
    {p \in [0..n -> Handles(a)] :
        /\ p[0] = N
        /\ \A k \in 0..(n - 1) : a[p[k]].tag = "Pair" /\ p[k + 1] = a[p[k]].right}

IsEmptyAtom(a, h) == a[h].tag = "Atom" /\ a[h].bytes = <<>>

C1_ArgCountIsSpineLength ==
    call.fn = "arg_count_is" =>
        LET paths == RightPaths(arena, call.node, call.count)
            early == \E m \in 0..(call.count - 1) :
                        \E p \in RightPaths(arena, call.node, m) :
                            arena[p[m]].tag = "Atom"
        IN  /\ call.ret = (\E p \in paths : IsEmptyAtom(arena, p[call.count]))
            /\ early => call.ret = FALSE
            /\ (\E p \in paths : ~IsEmptyAtom(arena, p[call.count]))
                   => call.ret = FALSE

C1_Witness ==
    /\ call.fn = "arg_count_is"
    /\ call.count = 2
    /\ call.ret = TRUE
    /\ arena[call.node].tag = "Pair"

(***************************************************************************)
(* C2.  Iterating the node Pair(x1, Pair(x2, ... Pair(xk, t))), t not a    *)
(* pair, yields x1 .. xk in order, then None whatever t is; after the      *)
(* first None the cursor is t and every later next() returns None.         *)
(***************************************************************************)
RECURSIVE SpineLefts(_, _)
SpineLefts(a, h) ==
    IF a[h].tag = "Pair" THEN <<a[h].left>> \o SpineLefts(a, a[h].right)
    ELSE <<>>

RECURSIVE SpineTail(_, _)
SpineTail(a, h) == IF a[h].tag = "Pair" THEN SpineTail(a, a[h].right) ELSE h

RECURSIVE RightN(_, _, _)
RightN(a, h, n) == IF n = 0 THEN h ELSE RightN(a, a[h].right, n - 1)

C2_IterationYieldsSpine ==
    iterStart # 0 =>
        LET xs == SpineLefts(arena, iterStart) IN
        /\ Len(yielded) <= Len(xs)
        /\ yielded = SubSeq(xs, 1, Len(yielded))
        /\ cursor = RightN(arena, iterStart, Len(yielded))
        /\ (lastRet.called /\ lastRet.ret = <<>>) = ended
        /\ ended => /\ yielded = xs
                    /\ cursor = SpineTail(arena, iterStart)
                    /\ arena[cursor].tag = "Atom"

\* the dotted list (x1 x2 . t) with t a non-empty atom, iterated to its end
C2_Witness ==
    /\ iterStart # 0
    /\ ended
    /\ Len(yielded) = 2
    /\ arena[cursor].tag = "Atom"
    /\ arena[cursor].bytes # <<>>

(***************************************************************************)
(* C3.  Every buffer produced by generate_program or generate_args is      *)
(* exactly one well-formed encoded value: decoding it from the first byte  *)
(* consumes the whole buffer and never runs past its end.                  *)
(***************************************************************************)
C3_BufferIsOneValue == Complete => ExactlyOneValue(buffer)

\* a finished argument list holding a pair (a PointPair literal) and an atom
\* with a two-byte length prefix (Bytes96)
C3_Witness ==
    /\ Complete
    /\ mode = "args"
    /\ \E i \in 1..Len(OPERATORS[op].operands) :
           OPERATORS[op].operands[i] = "PointPair"
    /\ \E i \in 1..Len(buffer) : buffer[i] = 192

(***************************************************************************)
(* C4.  In every buffer emitted by generate_program, at every depth, each  *)
(* operand of a call to entry S is a nested call to an entry whose result  *)
(* type is convertible to the operand type S declares there, or a quote    *)
(* wrapper around a literal of that type; and the operands emitted are as  *)
(* many as S declares.                                                     *)
(***************************************************************************)
C4_ProgramIsTypeConsistent ==
    (Complete /\ mode = "program") =>
        /\ decode(buffer, 1).ok
        /\ IsCall(op, decode(buffer, 1).node)

\* a finished call whose first operand is a nested call and whose second
\* is a quoted literal
C4_Witness ==
    /\ Complete
    /\ mode = "program"
    /\ Len(OPERATORS[op].operands) >= 2
    /\ LET args == decode(buffer, 1).node[3] IN
       /\ args[2][2] # A(<<1>>)
       /\ args[3][2][2] = A(<<1>>)

(***************************************************************************)
(* C5.  type_convertible(from, to) is true exactly when from = to, or to   *)
(* is AnyAtom and from one of the eight concrete atom kinds, or (from, to) *)
(* is (List, Tree), (Int32, Zero) or (Int64, Cost); false otherwise, in    *)
(* particular for the reverse of each widening.                            *)
(***************************************************************************)
ConcreteAtomKinds == {"Bool", "Int64", "Int32", "Zero", "Cost",
                      "Bytes32", "Bytes48", "Bytes96"}

Widenings == {<<"List", "Tree">>, <<"Int32", "Zero">>, <<"Int64", "Cost">>}
             \cup {<<k, "AnyAtom">> : k \in ConcreteAtomKinds}

C5_ConvertibleTable ==
    cvRes # "none" =>
        /\ (cvRes = "true") = (cvFrom = cvTo \/ <<cvFrom, cvTo>> \in Widenings)
        /\ <<cvTo, cvFrom>> \in Widenings => cvRes = "false"

C5_Witness == cvRes = "true" /\ cvFrom = "Int64" /\ cvTo = "Cost"

(***************************************************************************)
(* C6.  Every integer-valued atom the generator emits (Int64, Int32 and    *)
(* Cost literals) is the minimal big-endian two's-complement byte string   *)
(* of its value: no redundant leading 0x00 or 0xFF byte, zero being the    *)
(* empty atom.                                                             *)
(***************************************************************************)
IsMinimalInteger(bytes) ==
    /\ Len(bytes) = 1 => bytes[1] # 0
    /\ Len(bytes) >= 2 => /\ ~(bytes[1] = 0 /\ bytes[2] < 128)
                          /\ ~(bytes[1] = 255 /\ bytes[2] >= 128)

C6_IntegerAtomsMinimal ==
    intAtom.t # "none" => IsMinimalInteger(intAtom.bytes)

(***************************************************************************)
(* C7.  as_bool is false exactly on the atom of length zero and true on    *)
(* every other atom (among them [0x00] and [0x01]) and on every pair;      *)
(* nullp is true on exactly the nodes where as_bool is false.              *)
(***************************************************************************)
C7_AsBoolAndNullp ==
    /\ call.fn = "as_bool" => call.ret = ~IsEmptyAtom(arena, call.node)
    /\ call.fn = "nullp" => call.ret = IsEmptyAtom(arena, call.node)
    /\ call.fn \in {"as_bool", "nullp"} =>
           as_bool(arena, call.node) = ~nullp(arena, call.node)

C7_Witness ==
    /\ call.fn = "as_bool"
    /\ arena[call.node].tag = "Atom"
    /\ arena[call.node].bytes = <<0>>
    /\ call.ret = TRUE

C10_RecursionBounded ==
    \A i \in 1..Len(stack), j \in 1..Len(stack) :
        (i < j /\ stack[i].k = "program") => stack[i] # stack[j]

(***************************************************************************)
(* Specifications.                                                         *)
(***************************************************************************)
Init == NodeInit /\ ConvIdle /\ GenIdle

NextNode == NewAtom \/ Cons \/ CallNullp \/ CallAsBool \/ CallArgCountIs \/ Return

NextIter == NewAtom \/ Cons \/ IntoIter \/ IterNext

NextConv == PickTypes \/ Convert

NextGen ==
    \/ StartProgram \/ StartArgs \/ WriteFile
    \/ OperandNested \/ OperandQuoted \/ ProgramEnd
    \/ ArgsQuoted \/ ArgsEnd
    \/ GenTree \/ GenList \/ ListElement \/ ListEnd \/ GenPointPair
    \/ GenProgram \/ GenBool \/ GenInt64 \/ GenInt32 \/ GenZero \/ GenCost
    \/ GenBytes32 \/ GenBytes48 \/ GenBytes96 \/ GenAnyAtom

SpecNode == Init /\ [][NextNode]_vars

SpecIter == Init /\ [][NextIter]_vars

SpecConv == Init /\ [][NextConv]_vars

Spec == Init /\ [][NextGen]_vars

(***************************************************************************)
(* The generator over a catalog in which one operand type has lost every   *)
(* entry that could produce it.                                            *)
(***************************************************************************)
DefectTypes == {"PointPair", "Bytes32"}

WithoutProducers(t) ==
    {o \in AllOps : ~type_convertible(OPERATORS[o].result, t)}

InitDefect ==
    /\ NodeInit
    /\ ConvIdle
    /\ \E t \in DefectTypes : catalog = WithoutProducers(t)
    /\ mode = "loop1"
    /\ op = 0
    /\ buffer = <<>>
    /\ stack = <<>>
    /\ draws = 0
    /\ intAtom = NoIntAtom

SpecDefect == InitDefect /\ [][NextGen]_vars

=============================================================================
